---- MODULE Spec2Model ----
(* fix_markdown.py: a line-oriented markdown whitespace normaliser.        *)
(* A document is a sequence of characters; a line is a sequence of         *)
(* one-character strings.  Indices i, j, k keep Python's 0-based values.   *)
EXTENDS Integers, Sequences, FiniteSets

\* ---------------------------------------------------------------- bounds
MaxLen == 4
MaxMainLen == 3

\* ------------------------------------------------------------ characters
NL == "\n"
\* BT stands for the backtick character
BT == "bt"
Whitespace == {" ", "\t"}

\* The lines documents are built from.
LineAlphabet ==
  { <<>>,
    <<" ", " ">>,
    <<"#", " ", "a">>,
    <<"#", " ", "a", ":">>,
    <<"#", " ", "a", ":", ":">>,
    <<"a">>,
    <<"a", ":">>,
    <<BT, BT, BT>>,
    <<BT, BT, BT, "a">>,
    <<"-", " ", "a">>,
    <<" ", " ", "a">> }

RECURSIVE DocsOfLen(_)
DocsOfLen(n) ==
  IF n = 0 THEN { <<>> }
  ELSE { Append(d, l) : d \in DocsOfLen(n - 1), l \in LineAlphabet }

Docs(max) == UNION { DocsOfLen(n) : n \in 1..max }

\* ------------------------------------------------- str.split / str.join
RECURSIVE Join(_)
Join(ls) ==
  IF Len(ls) = 0 THEN <<>>
  ELSE IF Len(ls) = 1 THEN ls[1]
  ELSE ls[1] \o <<NL>> \o Join(Tail(ls))

RECURSIVE SplitFrom(_, _, _)
SplitFrom(content, p, cur) ==
  IF p > Len(content) THEN << cur >>
  ELSE IF content[p] = NL THEN << cur >> \o SplitFrom(content, p + 1, <<>>)
  ELSE SplitFrom(content, p + 1, Append(cur, content[p]))

Split(content) == SplitFrom(content, 1, <<>>)

\* ------------------------------------------------- line classification
At(ls, k) == ls[k + 1]

\* line.strip() is empty
IsBlank(line) == \A p \in 1..Len(line) : line[p] \in Whitespace

LeadingHashes(line) ==
  CHOOSE n \in 0..Len(line) :
    /\ \A p \in 1..n : line[p] = "#"
    /\ (n = Len(line) \/ line[n + 1] # "#")

\* re.match(r'^#{1,6}\s', line)
IsHeading(line) ==
  LET n == LeadingHashes(line)
  IN  n >= 1 /\ n <= 6 /\ Len(line) > n /\ line[n + 1] \in Whitespace

\* re.match(r'^BT{3}', line)
IsFence(line) ==
  Len(line) >= 3 /\ line[1] = BT /\ line[2] = BT /\ line[3] = BT

\* re.match(r'^BT{3}\s*$', line)
IsFenceClose(line) ==
  IsFence(line) /\ \A p \in 4..Len(line) : line[p] \in Whitespace

\* re.match(r'^- ', line)
IsListItem(line) == Len(line) >= 2 /\ line[1] = "-" /\ line[2] = " "

\* re.match(r'^  ', line)
IsContinuation(line) == Len(line) >= 2 /\ line[1] = " " /\ line[2] = " "

StripAllColons(line) ==
  LET n == CHOOSE m \in 0..Len(line) :
             /\ \A p \in (m + 1)..Len(line) : line[p] = ":"
             /\ (m = 0 \/ line[m] # ":")
  IN  SubSeq(line, 1, n)

\* re.sub(r':$', '', line)
StripColon(line) ==
  IF Len(line) > 0 /\ line[Len(line)] = ":"
  THEN SubSeq(line, 1, Len(line) - 1)
  ELSE line

\* ------------------------------------------------------ output buffer
\* fl is fixed_lines; og records, for every element of fl, the index of
\* the source line it was copied from, or -1 for an inserted blank line.
EmptyOut == [fl |-> <<>>, og |-> <<>>]

Emit(out, line, k) == [fl |-> Append(out.fl, line), og |-> Append(out.og, k)]

\* fixed_lines.append('')
EmitBlank(out) == Emit(out, <<>>, -1)

\* fixed_lines.insert(-1, '')
InsertBlankBeforeLast(out) ==
  LET n == Len(out.fl)
  IN  IF n = 0 THEN EmitBlank(out)
      ELSE [fl |-> Append(SubSeq(out.fl, 1, n - 1), <<>>) \o << out.fl[n] >>,
            og |-> Append(SubSeq(out.og, 1, n - 1), -1) \o << out.og[n] >>]

\* append lines[from..to] (inclusive) verbatim
RECURSIVE EmitRange(_, _, _, _)
EmitRange(out, ls, from, to) ==
  IF from > to THEN out
  ELSE EmitRange(Emit(out, At(ls, from), from), ls, from + 1, to)

\* --------------------------------------------------- first-pass rules
HeadingBeforeNever(ls, i) == FALSE

HeadingBefore(ls, i) ==
  IsHeading(At(ls, i)) /\ i > 0 /\ ~IsBlank(At(ls, i - 1))

HeadingAfter(ls, line, i) ==
  IsHeading(line) /\ i + 1 < Len(ls) /\ ~IsBlank(At(ls, i + 1))

CodeBefore(ls, i) == i > 0 /\ ~IsBlank(At(ls, i - 1))

FindFenceEnd(ls, i) ==
  CHOOSE j \in (i + 1)..Len(ls) :
    /\ (j = Len(ls) \/ IsFenceClose(At(ls, j)))
    /\ \A k \in (i + 1)..(j - 1) : ~IsFenceClose(At(ls, k))

CodeCopyFirstDup(i) == i

\* range(i+1, j+1) starts at i+1
CodeCopyFirst(i) == i + 1

\* for k in range(i+1, j+1): if k < len(lines)
CodeCopyLast(ls, j) == IF j < Len(ls) THEN j ELSE Len(ls) - 1

CodeAfterAlways(ls, j) == TRUE

CodeAfter(ls, j) == j + 1 < Len(ls) /\ ~IsBlank(At(ls, j + 1))

ListBefore(ls, i) ==
  i > 0 /\ ~IsListItem(At(ls, i - 1)) /\ ~IsBlank(At(ls, i - 1))

FindListEnd(ls, i) ==
  CHOOSE j \in i..(Len(ls) - 1) :
    /\ \A k \in (i + 1)..j : IsListItem(At(ls, k)) \/ IsContinuation(At(ls, k))
    /\ (j + 1 < Len(ls) =>
          ~(IsListItem(At(ls, j + 1)) \/ IsContinuation(At(ls, j + 1))))

ListAfterNever(ls, j) == FALSE

ListAfter(ls, j) == j + 1 < Len(ls) /\ ~IsBlank(At(ls, j + 1))

ListResumeStuck(j) == j - 1

\* i = j at the end of the list branch
ListResume(j) == j

\* One iteration of the loop "while i < len(lines)".  st = [out, i, blocks]:
\* blocks records the spans the code-block and list branches recognise,
\* last = len(lines) for a fence that is never closed.
LoopBody(ls, st) ==
  LET i     == st.i
      o1    == IF HeadingBefore(ls, i) THEN EmitBlank(st.out) ELSE st.out
      line  == IF IsHeading(At(ls, i)) THEN StripColon(At(ls, i)) ELSE At(ls, i)
      o2    == Emit(o1, line, i)
      o3    == IF HeadingAfter(ls, line, i) THEN EmitBlank(o2) ELSE o2
      \* code block branch
      isC   == IsFence(line)
      jc    == FindFenceEnd(ls, i)
      c1    == IF CodeBefore(ls, i) THEN InsertBlankBeforeLast(o3) ELSE o3
      c2    == EmitRange(c1, ls, CodeCopyFirst(i), CodeCopyLast(ls, jc))
      c3    == IF CodeAfter(ls, jc) THEN EmitBlank(c2) ELSE c2
      o4    == IF isC THEN c3 ELSE o3
      i4    == IF isC THEN jc ELSE i
      b4    == IF isC
               THEN st.blocks \cup {[kind |-> "code", first |-> i, last |-> jc]}
               ELSE st.blocks
      \* list branch
      isL   == IsListItem(line)
      jl    == FindListEnd(ls, i4)
      l1    == IF ListBefore(ls, i4) THEN InsertBlankBeforeLast(o4) ELSE o4
      l2    == EmitRange(l1, ls, i4 + 1, jl)
      l3    == IF ListAfter(ls, jl) THEN EmitBlank(l2) ELSE l2
      o5    == IF isL THEN l3 ELSE o4
      i5    == IF isL THEN ListResume(jl) ELSE i4
      b5    == IF isL
               THEN b4 \cup {[kind |-> "list", first |-> i4, last |-> jl]}
               ELSE b4
  IN  [out |-> o5, i |-> i5 + 1, blocks |-> b5]

RECURSIVE FirstPassFrom(_, _)
FirstPassFrom(ls, st) ==
  IF st.i < Len(ls) THEN FirstPassFrom(ls, LoopBody(ls, st)) ELSE st

FirstPass(ls) == FirstPassFrom(ls, [out |-> EmptyOut, i |-> 0, blocks |-> {}])

\* ------------------------------------------------------- second pass
KeepLineNoStrip(line, prev_empty) == line # <<>> \/ ~prev_empty

KeepLine(line, prev_empty) == ~IsBlank(line) \/ ~prev_empty

RECURSIVE CollapseFrom(_, _, _, _)
CollapseFrom(out, p, prev_empty, acc) ==
  IF p > Len(out.fl) THEN acc
  ELSE CollapseFrom(out, p + 1, IsBlank(out.fl[p]),
                    IF KeepLine(out.fl[p], prev_empty)
                    THEN Emit(acc, out.fl[p], out.og[p])
                    ELSE acc)

Collapse(out) == CollapseFrom(out, 1, FALSE, EmptyOut)

fix_markdown_formatting(content) ==
  Join(Collapse(FirstPass(Split(content)).out).fl)

\* ------------------------------------------------------------ program
VARIABLES pc, argc, file, orig, content, lines, fixed_lines, origin, i,
          blocks, result, rorigin, fixed_content, wopened, stdout, status

vars == << pc, argc, file, orig, content, lines, fixed_lines, origin, i,
           blocks, result, rorigin, fixed_content, wopened, stdout, status >>

fmtvars == << lines, fixed_lines, origin, i, blocks, result, rorigin,
              fixed_content >>

\* open(filename, 'r') leaves the file as it is
ReadEffectTruncate(f) == [f EXCEPT !.data = <<>>]

ReadEffect(f) == f

Fresh ==
  /\ lines = <<>>
  /\ fixed_lines = <<>>
  /\ origin = <<>>
  /\ i = 0
  /\ blocks = {}
  /\ result = <<>>
  /\ rorigin = <<>>
  /\ fixed_content = <<>>
  /\ wopened = FALSE
  /\ stdout = <<>>
  /\ status = -1

\* A process started with len(sys.argv) = argc on a file that can or
\* cannot be read.
InitMain ==
  /\ pc = "start"
  /\ argc \in 1..3
  /\ \E d \in Docs(MaxMainLen), r \in BOOLEAN :
       file = [readable |-> r, data |-> Join(d)]
  /\ orig = file
  /\ content = <<>>
  /\ Fresh

\* len(sys.argv) != 2
Usage ==
  /\ pc = "start"
  /\ argc # 2
  /\ stdout' = Append(stdout, "usage")
  /\ status' = 1
  /\ pc' = "exit"
  /\ UNCHANGED << argc, file, orig, content, wopened >>
  /\ UNCHANGED fmtvars

ArgsOk ==
  /\ pc = "start"
  /\ argc = 2
  /\ pc' = "read"
  /\ UNCHANGED << argc, file, orig, content, wopened, stdout, status >>
  /\ UNCHANGED fmtvars

ReadOk ==
  /\ pc = "read"
  /\ file.readable
  /\ file' = ReadEffect(file)
  /\ content' = file.data
  /\ pc' = "call"
  /\ UNCHANGED << argc, orig, wopened, stdout, status >>
  /\ UNCHANGED fmtvars

\* open() or f.read() raises: the traceback ends the process with status 1
ReadFail ==
  /\ pc = "read"
  /\ ~file.readable
  /\ file' = ReadEffect(file)
  /\ status' = 1
  /\ pc' = "exit"
  /\ UNCHANGED << argc, orig, content, wopened, stdout >>
  /\ UNCHANGED fmtvars

\* lines = content.split(NL); fixed_lines = []; i = 0
Enter ==
  /\ pc = "call"
  /\ lines' = Split(content)
  /\ fixed_lines' = <<>>
  /\ origin' = <<>>
  /\ i' = 0
  /\ blocks' = {}
  /\ pc' = "loop"
  /\ UNCHANGED << argc, file, orig, content, result, rorigin, fixed_content,
                  wopened, stdout, status >>

LoopIter ==
  /\ pc = "loop"
  /\ i < Len(lines)
  /\ LET st == LoopBody(lines, [out |-> [fl |-> fixed_lines, og |-> origin],
                                i |-> i, blocks |-> blocks])
     IN  /\ fixed_lines' = st.out.fl
         /\ origin' = st.out.og
         /\ i' = st.i
         /\ blocks' = st.blocks
  /\ UNCHANGED << pc, argc, file, orig, content, lines, result, rorigin,
                  fixed_content, wopened, stdout, status >>

LoopExit ==
  /\ pc = "loop"
  /\ ~(i < Len(lines))
  /\ pc' = "second"
  /\ UNCHANGED << argc, file, orig, content, wopened, stdout, status >>
  /\ UNCHANGED fmtvars

SecondPass ==
  /\ pc = "second"
  /\ LET r == Collapse([fl |-> fixed_lines, og |-> origin])
     IN  /\ result' = r.fl
         /\ rorigin' = r.og
  /\ pc' = "return"
  /\ UNCHANGED << argc, file, orig, content, lines, fixed_lines, origin, i,
                  blocks, fixed_content, wopened, stdout, status >>

\* return NL.join(result)
Return ==
  /\ pc = "return"
  /\ fixed_content' = Join(result)
  /\ pc' = "open_w"
  /\ UNCHANGED << argc, file, orig, content, lines, fixed_lines, origin, i,
                  blocks, result, rorigin, wopened, stdout, status >>

\* open(filename, 'w') truncates the file
OpenWrite ==
  /\ pc = "open_w"
  /\ file' = [file EXCEPT !.data = <<>>]
  /\ wopened' = TRUE
  /\ pc' = "write"
  /\ UNCHANGED << argc, orig, content, stdout, status >>
  /\ UNCHANGED fmtvars

\* open(filename, 'w') raises (no write permission)
OpenWriteFail ==
  /\ pc = "open_w"
  /\ status' = 1
  /\ pc' = "exit"
  /\ UNCHANGED << argc, file, orig, content, wopened, stdout >>
  /\ UNCHANGED fmtvars

WriteOk ==
  /\ pc = "write"
  /\ file' = [file EXCEPT !.data = fixed_content]
  /\ pc' = "confirm"
  /\ UNCHANGED << argc, orig, content, wopened, stdout, status >>
  /\ UNCHANGED fmtvars

\* f.write raises (disk full): some prefix of the text reached the file
WriteFail ==
  /\ pc = "write"
  /\ \E n \in {0, Len(fixed_content) \div 2} :
       file' = [file EXCEPT !.data = SubSeq(fixed_content, 1, n)]
  /\ status' = 1
  /\ pc' = "exit"
  /\ UNCHANGED << argc, orig, content, wopened, stdout >>
  /\ UNCHANGED fmtvars

Confirm ==
  /\ pc = "confirm"
  /\ stdout' = Append(stdout, "fixed")
  /\ status' = 0
  /\ pc' = "exit"
  /\ UNCHANGED << argc, file, orig, content, wopened >>
  /\ UNCHANGED fmtvars

NextFmt == Enter \/ LoopIter \/ LoopExit \/ SecondPass \/ Return

NextMain ==
  \/ Usage \/ ArgsOk \/ ReadOk \/ ReadFail
  \/ NextFmt
  \/ OpenWrite \/ OpenWriteFail \/ WriteOk \/ WriteFail \/ Confirm

\* The formatter called on every document of up to MaxLen lines.
InitFmt ==
  /\ pc = "call"
  /\ argc = 2
  /\ \E d \in Docs(MaxLen) : file = [readable |-> TRUE, data |-> Join(d)]
  /\ orig = file
  /\ content = file.data
  /\ Fresh

Spec == InitFmt /\ [][NextFmt]_vars

SpecMain == InitMain /\ [][NextMain]_vars

\* A sequential process keeps running until it exits.
SpecLive == SpecMain /\ WF_vars(NextMain)

\* ------------------------------------------------------- properties
\* fix_markdown_formatting has returned
Returned == pc \in {"open_w", "write", "confirm", "exit"} /\ Len(lines) > 0

NumLines == Len(lines)

\* source line k is present in the final output / its position there
Present(k) == \E p \in 1..Len(rorigin) : rorigin[p] = k

PosOf(k) == CHOOSE p \in 1..Len(rorigin) : rorigin[p] = k

EndsInColon(line) == Len(line) > 0 /\ line[Len(line)] = ":"

WithoutLastChar(line) == SubSeq(line, 1, Len(line) - 1)

\* source line k lies inside a code block span, after its opening fence
InCode(k) ==
  \E b \in blocks : b.kind = "code" /\ b.first < k /\ k <= b.last

\* the last source line of a recognised span
LastLine(b) == IF b.last < NumLines THEN b.last ELSE NumLines - 1

\* C1: formatting the formatter's output again gives the same text.
Idempotence ==
  Returned => fix_markdown_formatting(fixed_content) = fixed_content

\* C2: the lines strictly between an opening fence and its closing fence
\* appear in the final output unchanged, all of them, in order.
CodeContentFidelity ==
  Returned =>
    \A b \in blocks :
      (b.kind = "code" /\ b.last < NumLines) =>
        /\ Present(b.first) /\ Present(b.last)
        /\ SubSeq(result, PosOf(b.first) + 1, PosOf(b.last) - 1)
             = SubSeq(lines, b.first + 2, b.last)

\* C3: the output never has two adjacent blank lines.
BlankRunCollapse ==
  Returned =>
    LET o == Split(fixed_content)
    IN  \A p \in 1..(Len(o) - 1) : ~(IsBlank(o[p]) /\ IsBlank(o[p + 1]))

\* C3 witness: the first pass produced a run of blank lines, one of them
\* inserted and one copied from the source, and the formatter returned.
BlankRunCollapseWitness ==
  /\ Returned
  /\ \E p \in 1..(Len(fixed_lines) - 1) :
       /\ IsBlank(fixed_lines[p]) /\ IsBlank(fixed_lines[p + 1])
       /\ origin[p] = -1 \/ origin[p + 1] = -1
       /\ origin[p] # -1 \/ origin[p + 1] # -1

\* source line k has exactly one blank line right before it and exactly
\* one right after it in the final output
IsolatedAt(k) ==
  /\ Present(k)
  /\ LET p == PosOf(k)
     IN  /\ p > 1 /\ IsBlank(result[p - 1])
         /\ (p > 2 => ~IsBlank(result[p - 2]))
         /\ p < Len(result) /\ IsBlank(result[p + 1])
         /\ (p + 2 <= Len(result) => ~IsBlank(result[p + 2]))

\* C4 as stated: every heading line that is neither first nor last is
\* isolated by exactly one blank line on each side.
HeadingIsolationEverywhere ==
  Returned =>
    \A k \in 1..(NumLines - 2) : IsHeading(At(lines, k)) => IsolatedAt(k)

\* C4 amended: every heading line that is neither first nor last and does
\* not lie inside a fenced code block is isolated by exactly one blank
\* line on each side.
HeadingIsolation ==
  Returned =>
    \A k \in 1..(NumLines - 2) :
      (IsHeading(At(lines, k)) /\ ~InCode(k)) => IsolatedAt(k)

\* C4 witness: a heading outside code blocks between two non-blank lines.
HeadingIsolationWitness ==
  /\ Returned
  /\ \E k \in 1..(NumLines - 2) :
       /\ IsHeading(At(lines, k)) /\ ~InCode(k)
       /\ ~IsBlank(At(lines, k - 1)) /\ ~IsBlank(At(lines, k + 1))

\* C5 as stated: every heading ending in ':' loses exactly that one
\* character, every other line ending in ':' is output unchanged.
ColonStrippingEverywhere ==
  Returned =>
    \A k \in 0..(NumLines - 1) :
      EndsInColon(At(lines, k)) =>
        /\ Present(k)
        /\ result[PosOf(k)] = IF IsHeading(At(lines, k))
                              THEN WithoutLastChar(At(lines, k))
                              ELSE At(lines, k)

\* C5 amended: a heading ending in ':' that is not inside a fenced code
\* block loses exactly that one character; every other line ending in ':'
\* (non-heading, or inside a code block) is output unchanged.
ColonStripping ==
  Returned =>
    \A k \in 0..(NumLines - 1) :
      EndsInColon(At(lines, k)) =>
        /\ Present(k)
        /\ result[PosOf(k)] = IF IsHeading(At(lines, k)) /\ ~InCode(k)
                              THEN WithoutLastChar(At(lines, k))
                              ELSE At(lines, k)

\* C5 witness: a heading ending in "::" outside code blocks and a
\* non-heading line ending in ':' went through the formatter.
ColonStrippingWitness ==
  /\ Returned
  /\ \E k \in 0..(NumLines - 1) :
       /\ IsHeading(At(lines, k)) /\ ~InCode(k)
       /\ EndsInColon(At(lines, k))
       /\ EndsInColon(WithoutLastChar(At(lines, k)))
  /\ \E k \in 0..(NumLines - 1) :
       ~IsHeading(At(lines, k)) /\ EndsInColon(At(lines, k))

BlankBefore(k) ==
  Present(k) /\ PosOf(k) > 1 /\ IsBlank(result[PosOf(k) - 1])

BlankAfter(k) ==
  Present(k) /\ PosOf(k) < Len(result) /\ IsBlank(result[PosOf(k) + 1])

\* C6 as stated: every recognised code block and list block has a blank
\* line right before its first line unless it starts the document and a
\* blank line right after its last line unless it ends the document.
BlocksSurroundedEverywhere ==
  Returned =>
    \A b \in blocks :
      /\ b.first > 0 => BlankBefore(b.first)
      /\ LastLine(b) < NumLines - 1 => BlankAfter(LastLine(b))

\* C6 amended: as C6, except that no blank line is promised after a block
\* whose last line is itself blank (a whitespace-only continuation line).
BlocksSurrounded ==
  Returned =>
    \A b \in blocks :
      /\ b.first > 0 => BlankBefore(b.first)
      /\ (LastLine(b) < NumLines - 1 /\ ~IsBlank(At(lines, LastLine(b))))
           => BlankAfter(LastLine(b))

\* C6 witness: a code block and a list block, one of them between two
\* non-blank lines.
BlocksSurroundedWitness ==
  /\ Returned
  /\ \E b \in blocks :
       /\ b.kind = "list"
       /\ b.first > 0 /\ ~IsBlank(At(lines, b.first - 1))
       /\ LastLine(b) < NumLines - 1 /\ ~IsBlank(At(lines, LastLine(b) + 1))
  /\ \E b \in blocks : b.kind = "code"

\* the last n elements of s
Suffix(s, n) == SubSeq(s, Len(s) - n + 1, Len(s))

IsSource(k) == k # -1

NonBlank(ls) == SelectSeq(ls, LAMBDA l : ~IsBlank(l))

\* what the formatter is expected to do to source line k
ExpectedLine(k) ==
  IF IsHeading(At(lines, k)) /\ ~InCode(k) /\ EndsInColon(At(lines, k))
  THEN WithoutLastChar(At(lines, k))
  ELSE At(lines, k)

\* C10: at every loop iteration the first-pass output without its inserted
\* blank lines is lines[0..i-1], each line unchanged or a heading without
\* its trailing ':'; the non-blank lines of the final output are the
\* non-blank lines of the input, in order.
LineConservation ==
  /\ pc \in {"loop", "second"} =>
       /\ SelectSeq(origin, IsSource)
            = [k \in 1..(IF i < NumLines THEN i ELSE NumLines) |-> k - 1]
       /\ \A p \in 1..Len(fixed_lines) :
            fixed_lines[p] = IF origin[p] = -1 THEN <<>>
                             ELSE ExpectedLine(origin[p])
  /\ Returned =>
       NonBlank(result) = NonBlank([k \in 1..NumLines |-> ExpectedLine(k - 1)])

\* C10 witness: a run in which a block branch consumed several lines, a
\* blank line was inserted and a heading lost its colon.
LineConservationWitness ==
  /\ Returned
  /\ \E b \in blocks : b.last > b.first
  /\ \E p \in 1..Len(rorigin) : rorigin[p] = -1
  /\ \E k \in 0..(NumLines - 1) : ExpectedLine(k) # At(lines, k)

\* C7: the file is opened for writing only by a process that had one
\* argument, read the whole file and transformed it; until then the file
\* is as it was, and a process that ends on a wrong argument count or a
\* failed read ends with a non-zero status and the file untouched.
NoWriteBeforeRead ==
  /\ wopened =>
       /\ argc = 2 /\ orig.readable
       /\ content = orig.data
       /\ fixed_content = fix_markdown_formatting(content)
       /\ pc \in {"write", "confirm", "exit"}
  /\ ~wopened => file = orig
  /\ (pc = "exit" /\ (argc # 2 \/ ~orig.readable)) =>
       status # 0 /\ status # -1 /\ file = orig

\* C7 witness: a process with one argument ended on a failed read of a
\* non-empty file.
NoWriteBeforeReadWitness ==
  /\ pc = "exit"
  /\ argc = 2
  /\ ~orig.readable
  /\ orig.data # <<>>

Invoked == pc = "start" /\ argc = 2 /\ file.readable

Completed ==
  /\ pc = "exit"
  /\ status = 0
  /\ stdout = << "fixed" >>
  /\ file.data = fix_markdown_formatting(orig.data)

\* C8 as stated: every invocation with one argument naming a readable file
\* ends with the file overwritten, the confirmation printed and status 0.
RunsToCompletion == Invoked ~> Completed

\* C8 amended: every invocation with one argument naming a readable file
\* terminates; the cursor i strictly increases on every loop iteration; the
\* process ends either with the file overwritten, the confirmation printed
\* and status 0, or, when opening or writing the file failed, with status 1.
Termination ==
  /\ [][(pc = "loop" /\ pc' = "loop") => i' > i]_vars
  /\ Invoked ~> (pc = "exit")
  /\ []((pc = "exit" /\ argc = 2 /\ orig.readable) =>
          (Completed \/ (status = 1 /\ stdout = <<>>)))

\* C8 witness: a completed run whose first pass went through the
\* code-block branch and the list branch.
TerminationWitness ==
  /\ Completed
  /\ \E b \in blocks : b.kind = "code"
  /\ \E b \in blocks : b.kind = "list"

====
